---- MODULE Spec2Model ----
(***************************************************************************)
(* Model of evolocity/plotting/evolocity_plotting.py: the path resolver    *)
(* (shortest_path), the path renderer (draw_path), the residue score       *)
(* heatmap (residue_scores) and the residue category overlay               *)
(* (residue_categories).                                                   *)
(***************************************************************************)
EXTENDS Integers, Sequences, FiniteSets, TLC

VARIABLES
    adata,      \* the annotated dataset the path functions read
    call,       \* the pending call: function name and arguments
    pc,         \* "idle" before the call, "done" after it
    ret,        \* what the call produced: return value or raised error
    figures,    \* pyplot's global state: number of figures created
    draws,      \* sequence of draw operations issued on drawing surfaces
    scores,     \* adata.uns['residue_scores'], the matrix shared by all calls
    pos_seen,   \* residue_categories: the rows recorded by the selection loop
    iters       \* residue_categories: iterations of the selection loop so far

vars == <<adata, call, pc, ret, figures, draws, scores, pos_seen, iters>>

----------------------------------------------------------------------------
(* Bounds of the model.                                                    *)

NumNodes == 3       \* observations (rows of every per-observation matrix)
MaxEdges == 3       \* stored entries of the sparse velocity graphs
MaxPathLen == 3     \* nodes of an explicitly supplied path
NumPositions == 3   \* rows of the residue-score matrix
MaxNonzero == 2     \* nonzero cells of the residue-score matrix
MaxScore == 2       \* residue scores range over -MaxScore..MaxScore
MaxSeqLen == 2      \* residues of the raw reference sequence

Nodes == 0 .. (NumNodes - 1)
OffDiag == {c \in Nodes \X Nodes : c[1] # c[2]}

----------------------------------------------------------------------------
(* Errors the functions raise.                                             *)

ErrCorrupted == "ValueError: Your neighbor graph seems to be corrupted."
ErrNoGraph == "ValueError: Must run velocity_graph() first."
ErrNoPathArgs == "ValueError: Must provide path indices or source and target indices."
ErrNoBasis == "ValueError: Basis umap not found in AnnData."
ErrKey == "KeyError: velocity_graph_neg"
ErrNoPath == "NetworkXNoPath"
NoErr == ""

----------------------------------------------------------------------------
(* shortest_path                                                           *)

\* get_neighs(adata, 'distances'): the neighbor-distance matrix.
get_neighs(ad) == ad.distances

\* (M > 0).sum(1).A1 : per row, the number of positive entries.
RowCounts(M) == [u \in Nodes |-> Cardinality({v \in Nodes : M[u][v] > 0})]

\* A variant that fires only when every row is empty (np.max in place of
\* np.min).
NeighborsCorruptedAllRows(ad) == \A u \in Nodes : RowCounts(get_neighs(ad))[u] = 0

\* np.min(...) == 0 : some row has no positive entry.
NeighborsCorrupted(ad) == \E u \in Nodes : RowCounts(get_neighs(ad))[u] = 0

\* T = graph - graph_neg (sparse subtraction keeps only nonzero results).
Difference(ad) == [u \in Nodes |-> [v \in Nodes |-> ad.graph[u][v] - ad.graph_neg[u][v]]]

\* from_scipy_sparse_matrix(T) with the default create_using: an undirected
\* nx.Graph with an edge {u, v} for every stored entry T[u,v].
Adjacent(T, u, v) == T[u][v] # 0 \/ T[v][u] # 0

Adj(T, u) == {v \in Nodes : Adjacent(T, u, v)}

\* Breadth-first search from s: Within(T, s, k) is the set of nodes reached
\* in at most k hops; Hops is the hop count of t (-1 when unreachable).
RECURSIVE Within(_, _, _)
Within(T, s, k) ==
    IF k = 0 THEN {s}
    ELSE LET prev == Within(T, s, k - 1)
         IN  prev \cup UNION {Adj(T, u) : u \in prev}

Hops(T, s, t) ==
    IF t \notin Within(T, s, NumNodes) THEN -1
    ELSE CHOOSE k \in 0 .. NumNodes :
            /\ t \in Within(T, s, k)
            /\ \A j \in 0 .. (k - 1) : t \notin Within(T, s, j)

\* All node sequences of k hops from s to t along edges of the graph.
RECURSIVE Walks(_, _, _, _)
Walks(T, s, t, k) ==
    IF k = 0 THEN (IF s = t THEN {<<s>>} ELSE {})
    ELSE UNION {{Append(w, t) : w \in Walks(T, s, u, k - 1)} :
                    u \in {x \in Adj(T, t) : Hops(T, s, x) = k - 1}}

\* nx.shortest_path(G, source, target) with no weight: one of the paths
\* with the fewest hops (which one is the library's choice), or
\* NetworkXNoPath.
ShortestPaths(T, s, t) ==
    IF Hops(T, s, t) < 0 THEN {} ELSE Walks(T, s, t, Hops(T, s, t))

\* The outcomes of shortest_path(adata, source_idx, target_idx): the error
\* raised or the path returned, with the steps performed before the exit.
shortest_path(ad, s, t) ==
    IF NeighborsCorrupted(ad)
    THEN {[err |-> ErrCorrupted, path |-> <<>>, steps |-> <<"get_neighs">>]}
    ELSE IF "velocity_graph" \notin ad.uns
    THEN {[err |-> ErrNoGraph, path |-> <<>>, steps |-> <<"get_neighs", "check_uns">>]}
    ELSE IF "velocity_graph_neg" \notin ad.uns
    THEN {[err |-> ErrKey, path |-> <<>>, steps |-> <<"get_neighs", "check_uns">>]}
    ELSE LET T == Difference(ad)
             done == <<"get_neighs", "check_uns", "difference", "build_graph", "search">>
         IN  IF ShortestPaths(T, s, t) = {}
             THEN {[err |-> ErrNoPath, path |-> <<>>, steps |-> done]}
             ELSE {[err |-> NoErr, path |-> p, steps |-> done] :
                        p \in ShortestPaths(T, s, t)}

----------------------------------------------------------------------------
(* draw_path                                                               *)

AxUser == "ax_user"     \* the drawing surface supplied by the caller
AxNew == "ax_new"       \* the surface of a figure made by plt.figure()
NoAx == ""

\* np.array(adata.obsm['X_umap'][path, 0]).ravel() and [path, 1]
basis_x(ad, path) == [i \in 1 .. Len(path) |-> ad.X[path[i]][1]]
basis_y(ad, path) == [i \in 1 .. Len(path) |-> ad.X[path[i]][2]]

\* A variant whose loop stops one segment early (idx < len(basis_x) - 2).
ArrowsStopEarly(ad, path, ax) ==
    [i \in 1 .. (Len(path) - 2) |->
        [op |-> "arrow", ax |-> ax,
         x |-> basis_x(ad, path)[i], y |-> basis_y(ad, path)[i],
         dx |-> basis_x(ad, path)[i + 1] - basis_x(ad, path)[i],
         dy |-> basis_y(ad, path)[i + 1] - basis_y(ad, path)[i],
         zorder |-> 5]]

\* The loop over the points: one ax.arrow for every idx < len(basis_x) - 1.
Arrows(ad, path, ax) ==
    [i \in 1 .. (Len(path) - 1) |->
        [op |-> "arrow", ax |-> ax,
         x |-> basis_x(ad, path)[i], y |-> basis_y(ad, path)[i],
         dx |-> basis_x(ad, path)[i + 1] - basis_x(ad, path)[i],
         dy |-> basis_y(ad, path)[i + 1] - basis_y(ad, path)[i],
         zorder |-> 5]]

\* ax.scatter(basis_x, basis_y, ..., zorder=10)
Scatter(ad, path, ax) ==
    [op |-> "scatter", ax |-> ax,
     xs |-> basis_x(ad, path), ys |-> basis_y(ad, path), zorder |-> 10]

\* The part of draw_path after the path is known: make a figure when no
\* surface was supplied, then look the embedding up, then draw.
Render(ad, c, o) ==
    IF o.err # NoErr
    THEN [err |-> o.err, path |-> <<>>, steps |-> o.steps, ax |-> NoAx,
          newfigs |-> 0, draws |-> <<>>]
    ELSE LET ax == IF c.has_ax THEN AxUser ELSE AxNew
             newfigs == IF c.has_ax THEN 0 ELSE 1
         IN  IF "X_umap" \notin ad.obsm
             THEN [err |-> ErrNoBasis, path |-> o.path, steps |-> o.steps,
                   ax |-> NoAx, newfigs |-> newfigs, draws |-> <<>>]
             ELSE [err |-> NoErr, path |-> o.path, steps |-> o.steps,
                   ax |-> ax, newfigs |-> newfigs,
                   draws |-> Arrows(ad, o.path, ax) \o <<Scatter(ad, o.path, ax)>>]

\* The outcomes of draw_path(adata, path, source_idx, target_idx, ax=...).
draw_path(ad, c) ==
    IF ~c.has_path /\ (~c.has_source \/ ~c.has_target)
    THEN {[err |-> ErrNoPathArgs, path |-> <<>>, steps |-> <<>>, ax |-> NoAx,
           newfigs |-> 0, draws |-> <<>>]}
    ELSE LET resolved ==
                IF c.has_path
                THEN {[err |-> NoErr, path |-> c.path, steps |-> <<>>]}
                ELSE shortest_path(ad, c.source_idx, c.target_idx)
         IN  {Render(ad, c, o) : o \in resolved}

----------------------------------------------------------------------------
(* Datasets and calls the path functions are run on.                       *)

MatrixOf(S) == [u \in Nodes |-> [v \in Nodes |-> IF <<u, v>> \in S THEN 1 ELSE 0]]

\* Neighbor matrices in which the rows of R have a neighbor (the next node
\* around the ring) and the other rows have none.
DistMatrices == {MatrixOf({<<u, (u + 1) % NumNodes>> : u \in R}) : R \in SUBSET Nodes}
CompleteDist == MatrixOf(OffDiag)

AllKeys == {"velocity_graph", "velocity_graph_neg"}

\* A pair of sparse graphs with at most MaxEdges stored cells; a cell is
\* stored in velocity_graph, in velocity_graph_neg, or in both.
Supports == {S \in SUBSET OffDiag : Cardinality(S) <= MaxEdges}

GraphPair(S, k) ==
    [graph |-> MatrixOf({c \in S : k[c] \in {"pos", "both"}}),
     graph_neg |-> MatrixOf({c \in S : k[c] \in {"neg", "both"}})]

\* 0 -> 1 -> 2 -> ... as a sample velocity graph.
ChainPair ==
    [graph |-> MatrixOf({c \in OffDiag : c[2] = c[1] + 1}), graph_neg |-> MatrixOf({})]

\* Three layouts of the embedding: points in general position, points on a
\* line, and all points coincident.
Layouts ==
    {[n \in Nodes |-> <<n, (n * n) % NumNodes>>],
     [n \in Nodes |-> <<NumNodes - n, 0>>],
     [n \in Nodes |-> <<0, 0>>]}

SpreadLayout == [n \in Nodes |-> <<n, (n * n) % NumNodes>>]

Dataset(dist, uns, gp, obsm, X) ==
    [distances |-> dist, uns |-> uns, graph |-> gp.graph,
     graph_neg |-> gp.graph_neg, obsm |-> obsm, X |-> X]

RECURSIVE SeqsUpTo(_, _)
SeqsUpTo(S, n) ==
    IF n = 0 THEN {<<>>}
    ELSE LET shorter == SeqsUpTo(S, n - 1)
         IN  shorter \cup {Append(q, x) : q \in {r \in shorter : Len(r) = n - 1}, x \in S}

ResolverCall(s, t) ==
    [fn |-> "shortest_path", has_path |-> FALSE, path |-> <<>>,
     has_source |-> TRUE, source_idx |-> s, has_target |-> TRUE, target_idx |-> t,
     has_ax |-> FALSE]

RendererCall(hp, p, hs, s, ht, t, hax) ==
    [fn |-> "draw_path", has_path |-> hp, path |-> p,
     has_source |-> hs, source_idx |-> s, has_target |-> ht, target_idx |-> t,
     has_ax |-> hax]

NoRet == [err |-> NoErr, path |-> <<>>, steps |-> <<>>, ax |-> NoAx]

\* The residue functions are not involved in the path runs.
NoResidue ==
    /\ scores = <<>>
    /\ pos_seen = {}
    /\ iters = 0

Fresh ==
    /\ pc = "idle"
    /\ ret = NoRet
    /\ figures = 0
    /\ draws = <<>>
    /\ NoResidue

\* Resolver runs, from node 0 to any node: any pattern of empty rows in the
\* neighbor matrix against any annotation set, and any sparse graph pair
\* (entries of either sign, or entries that cancel in the difference)
\* under a sound neighbor matrix.
InitResolver ==
    /\ Fresh
    /\ \E t \in Nodes : call = ResolverCall(0, t)
    /\ \/ \E d \in DistMatrices \cup {CompleteDist}, uns \in SUBSET AllKeys :
            adata = Dataset(d, uns, ChainPair, {"X_umap"}, SpreadLayout)
       \/ \E S \in Supports, kinds \in {{"pos", "neg"}, {"pos", "both"}} :
          \E k \in [S -> kinds] :
            adata = Dataset(CompleteDist, AllKeys, GraphPair(S, k), {"X_umap"}, SpreadLayout)

\* Renderer runs: an explicit path over any layout, and a path resolved
\* from node 0 over any sparse graph or over a dataset the resolver
\* rejects.
InitRenderer ==
    /\ Fresh
    /\ \/ /\ \E obsm \in SUBSET {"X_umap"}, X \in Layouts :
                adata = Dataset(CompleteDist, AllKeys, ChainPair, obsm, X)
          /\ \E p \in SeqsUpTo(Nodes, MaxPathLen), given \in BOOLEAN, hax \in BOOLEAN :
                call = RendererCall(TRUE, p, given, 0, given, 0, hax)
       \/ /\ \/ \E S \in Supports, obsm \in SUBSET {"X_umap"} :
                    adata = Dataset(CompleteDist, AllKeys,
                                    GraphPair(S, [c \in S |-> "pos"]), obsm, SpreadLayout)
             \/ \E d \in {CompleteDist, MatrixOf({})}, uns \in {AllKeys, {}},
                  obsm \in SUBSET {"X_umap"} :
                    adata = Dataset(d, uns, ChainPair, obsm, SpreadLayout)
          /\ \E hs \in BOOLEAN, ht \in BOOLEAN, hax \in BOOLEAN :
             \E t \in (IF ht THEN Nodes ELSE {0}) :
                call = RendererCall(FALSE, <<>>, hs, 0, ht, t, hax)

ShortestPathCall ==
    /\ pc = "idle"
    /\ call.fn = "shortest_path"
    /\ \E o \in shortest_path(adata, call.source_idx, call.target_idx) :
            ret' = [err |-> o.err, path |-> o.path, steps |-> o.steps, ax |-> NoAx]
    /\ pc' = "done"
    /\ UNCHANGED <<adata, call, figures, draws, scores, pos_seen, iters>>

DrawPathCall ==
    /\ pc = "idle"
    /\ call.fn = "draw_path"
    /\ \E o \in draw_path(adata, call) :
            /\ ret' = [err |-> o.err, path |-> o.path, steps |-> o.steps, ax |-> o.ax]
            /\ figures' = figures + o.newfigs
            /\ draws' = draws \o o.draws
    /\ pc' = "done"
    /\ UNCHANGED <<adata, call, scores, pos_seen, iters>>

SpecResolver == InitResolver /\ [][ShortestPathCall]_vars
SpecRenderer == InitRenderer /\ [][DrawPathCall]_vars

----------------------------------------------------------------------------
(* The residue-score matrix and its vocabulary.                            *)

\* adata.uns['onehot_vocabulary']: category index k -> symbol Vocabulary[k+1]
Vocabulary == <<"A", "C">>
NumCats == Len(Vocabulary)

Positions == 0 .. (NumPositions - 1)
Cats == 0 .. (NumCats - 1)
Cells == Positions \X Cats

Abs(x) == IF x < 0 THEN -x ELSE x

Range1(q) == {q[k] : k \in 1 .. Len(q)}

RECURSIVE SortedSeq(_)
\* sorted(S) for a set of integers
SortedSeq(S) ==
    IF S = {} THEN <<>>
    ELSE LET m == CHOOSE x \in S : \A y \in S : x <= y
         IN  <<m>> \o SortedSeq(S \ {m})

\* str(x) for a small non-negative integer
Digits == <<"0", "1", "2", "3", "4", "5", "6", "7", "8", "9">>
str(x) == Digits[x + 1]

----------------------------------------------------------------------------
(* residue_scores                                                          *)

RECURSIVE AbsSumUpTo(_, _, _)
AbsSumUpTo(M, i, j) ==
    IF j < 0 THEN 0 ELSE Abs(M[i][j]) + AbsSumUpTo(M, i, j - 1)

\* np.abs(scores.X).sum(1)
score_sum(M) == [i \in Positions |-> AbsSumUpTo(M, i, NumCats - 1)]

\* The k-th smallest (k = 0, 1, ...) of the row sums.
Kth(sums, k) ==
    CHOOSE v \in {sums[i] : i \in Positions} :
        /\ Cardinality({i \in Positions : sums[i] < v}) <= k
        /\ Cardinality({i \in Positions : sums[i] <= v}) > k

\* np.percentile(sums, p), linear interpolation, times 100.
Percentile100(sums, p) ==
    LET h == p * (NumPositions - 1)
        lo == h \div 100
        frac == h % 100
        hi == IF lo + 1 < NumPositions THEN lo + 1 ELSE lo
    IN  100 * Kth(sums, lo) + frac * (Kth(sums, hi) - Kth(sums, lo))

\* A variant that keeps only rows strictly above the cutoff.
KeptRowsStrict(M, p) ==
    IF p > 0
    THEN {i \in Positions : 100 * score_sum(M)[i] > Percentile100(score_sum(M), p)}
    ELSE Positions

\* scores[score_sum >= cutoff] when percentile_keep > 0, else every row.
KeptRows(M, p) ==
    IF p > 0
    THEN {i \in Positions : 100 * score_sum(M)[i] >= Percentile100(score_sum(M), p)}
    ELSE Positions

MinOf(M, rows) ==
    CHOOSE v \in {M[i][j] : i \in rows, j \in Cats} :
        \A i \in rows, j \in Cats : v <= M[i][j]

MaxOf(M, rows) ==
    CHOOSE v \in {M[i][j] : i \in rows, j \in Cats} :
        \A i \in rows, j \in Cats : v >= M[i][j]

\* A variant that forgets the negative side of the scale.
EndMaxOnly(M, rows) == MaxOf(M, rows)

\* end = max(abs(np.min(scores.X)), np.max(scores.X))
End(M, rows) ==
    IF Abs(MinOf(M, rows)) >= MaxOf(M, rows) THEN Abs(MinOf(M, rows)) ELSE MaxOf(M, rows)

\* scores.X /= end : every value becomes the quotient num / den (NaN when
\* den = 0, which happens only for an all-zero matrix).
Normalized(M, rows) ==
    [k \in 1 .. Len(rows) |->
        [j \in Cats |-> [num |-> M[rows[k]][j], den |-> End(M, Range1(rows))]]]

\* The heatmap drawn by residue_scores(adata, percentile_keep=p).
Heatmap(M, p) ==
    LET positions == [i \in Positions |-> str(i)]
        rows == SortedSeq(KeptRows(M, p))
    IN  [op |-> "heatmap",
         X |-> Normalized(M, rows),
         xticklabels |-> Vocabulary,
         yticklabels |-> [k \in 1 .. Len(rows) |-> positions[rows[k]]],
         vmin |-> -1, vmax |-> 1]

Percentiles == {-25, 0, 25, 50, 75, 100}

NonzeroScores == (-MaxScore .. MaxScore) \ {0}

ScoreMatrix(S, val) ==
    [i \in Positions |-> [j \in Cats |-> IF <<i, j>> \in S THEN val[<<i, j>>] ELSE 0]]

\* The supports of the sparse score matrices.
CellSets == {S \in SUBSET Cells : Cardinality(S) <= MaxNonzero}

InitHeatmap ==
    /\ pc = "idle"
    /\ ret = [err |-> NoErr, ax |-> NoAx, saved |-> FALSE]
    /\ figures = 0
    /\ draws = <<>>
    /\ adata = [onehot_vocabulary |-> Vocabulary]
    /\ \E S \in CellSets : \E val \in [S -> NonzeroScores] : scores = ScoreMatrix(S, val)
    /\ \E p \in Percentiles, save \in BOOLEAN :
            /\ save => p = 0
            /\ call = [fn |-> "residue_scores", percentile_keep |-> p, save |-> save]
    /\ pos_seen = {}
    /\ iters = 0

ResidueScoresCall ==
    /\ pc = "idle"
    /\ call.fn = "residue_scores"
    /\ figures' = figures + 1
    /\ draws' = draws \o <<Heatmap(scores, call.percentile_keep)>>
    /\ ret' = [err |-> NoErr,
               ax |-> IF call.save THEN NoAx ELSE AxNew,
               saved |-> call.save]
    /\ pc' = "done"
    /\ UNCHANGED <<adata, call, scores, pos_seen, iters>>

SpecHeatmap == InitHeatmap /\ [][ResidueScoresCall]_vars

----------------------------------------------------------------------------
(* residue_categories                                                      *)

ErrAssert == "AssertionError"
ErrIndex == "IndexError: string index out of range"
ErrKeyPos == "KeyError: pos2msa"

\* float('inf'): above every finite score.
Inf == MaxScore + 1

\* The reference mapping loop: scan seq_ref_msa from column idx (1-based
\* here) with the mapping built so far; pos2msa[k] is kept at map[k + 1].
RECURSIVE ScanMsa(_, _, _, _)
ScanMsa(seq_ref, seq_ref_msa, idx, map) ==
    IF idx > Len(seq_ref_msa) THEN [err |-> NoErr, pos2msa |-> map]
    ELSE IF seq_ref_msa[idx] = "-" THEN ScanMsa(seq_ref, seq_ref_msa, idx + 1, map)
    ELSE IF Len(map) >= Len(seq_ref) THEN [err |-> ErrIndex, pos2msa |-> map]
    ELSE IF seq_ref_msa[idx] # seq_ref[Len(map) + 1] THEN [err |-> ErrAssert, pos2msa |-> map]
    ELSE ScanMsa(seq_ref, seq_ref_msa, idx + 1, Append(map, idx - 1))

BuildMapping(ad) == ScanMsa(ad.seq, ad.seqs_msa, 1, <<>>)

\* A variant that picks the first flat index of the largest finite value
\* (argmax in place of argmin).
argmaxFinite(S) ==
    CHOOSE k \in 0 .. (NumPositions * NumCats - 1) :
        LET v == S[k \div NumCats][k % NumCats]
            finite == {c \in Cells : S[c[1]][c[2]] < MaxScore + 1}
        IN  IF finite = {} THEN k = 0
            ELSE /\ v < MaxScore + 1
                 /\ \A c \in finite : v >= S[c[1]][c[2]]
                 /\ \A l \in 0 .. (k - 1) : S[l \div NumCats][l % NumCats] # v

\* np.argmin(scores): the first flat (row-major) index of the minimum.
argmin(S) ==
    CHOOSE k \in 0 .. (NumPositions * NumCats - 1) :
        LET v == S[k \div NumCats][k % NumCats]
        IN  /\ \A c \in Cells : v <= S[c[1]][c[2]]
            /\ \A l \in 0 .. (k - 1) : S[l \div NumCats][l % NumCats] # v

\* np.unravel_index(k, scores.shape)
unravel_index(k) == <<k \div NumCats, k % NumCats>>

\* A variant that overwrites the whole row (scores[min_idx[0]] = inf).
OverwriteRow(S, min_idx) == [S EXCEPT ![min_idx[1]] = [j \in Cats |-> Inf]]

\* A variant that leaves the matrix alone (the scan works on a copy).
OverwriteCopy(S, min_idx) == S

\* scores[min_idx] = float('inf')
Overwrite(S, min_idx) == [S EXCEPT ![min_idx[1]][min_idx[2]] = Inf]

\* The loop counter saturates one past the number of cells.
IterCap == NumPositions * NumCats + 1
Bump(n) == IF n < IterCap THEN n + 1 ELSE n

\* The rendering loop over positions: the column looked up for each
\* position, stopping at the first lookup that fails.
RECURSIVE RenderFrom(_, _, _, _, _)
RenderFrom(ad, use_ref, pos2msa, positions, k) ==
    IF k > Len(positions) THEN [err |-> NoErr, plots |-> <<>>]
    ELSE LET pos == positions[k]
         IN  IF use_ref /\ pos + 1 > Len(pos2msa)
             THEN [err |-> ErrKeyPos, plots |-> <<>>]
             ELSE LET col == IF use_ref THEN pos2msa[pos + 1] ELSE pos
                  IN  IF col + 1 > Len(ad.seqs_msa)
                      THEN [err |-> ErrIndex, plots |-> <<>>]
                      ELSE LET rest == RenderFrom(ad, use_ref, pos2msa, positions, k + 1)
                           IN  [err |-> rest.err,
                                plots |-> <<[op |-> "umap", pos |-> pos,
                                             symbol |-> ad.seqs_msa[col + 1]]>>
                                          \o rest.plots]

CategoryCalls ==
    {[fn |-> "residue_categories", has_positions |-> hp, positions |-> ps,
      n_plot |-> n, has_reference |-> hr, entry |-> <<>>] :
        hp \in BOOLEAN, ps \in SeqsUpTo(Positions, 1),
        n \in 0 .. (NumPositions + 1), hr \in BOOLEAN}

\* residue_categories is entered: the reference mapping is built (lines
\* 144-153), then explicit positions go straight to rendering and
\* positions=None enters the selection loop.  The call remembers the
\* matrix it was entered with.
Call ==
    /\ pc \in {"idle", "done"}
    /\ \E c \in CategoryCalls :
        /\ c.has_positions \/ c.positions = <<>>
        /\ ~c.has_positions \/ c.n_plot = 0
        /\ c.has_reference \in adata.reference_modes
        /\ call' = [c EXCEPT !.entry = scores]
        /\ LET m == IF c.has_reference THEN BuildMapping(adata)
                    ELSE [err |-> NoErr, pos2msa |-> <<>>]
           IN  /\ ret' = [err |-> m.err, positions |-> c.positions, pos2msa |-> m.pos2msa,
                          failed_at |-> IF m.err # NoErr THEN "mapping" ELSE ""]
               /\ pc' = IF m.err # NoErr THEN "done"
                        ELSE IF c.has_positions THEN "render" ELSE "loop"
    /\ pos_seen' = {}
    /\ iters' = 0
    /\ draws' = <<>>
    /\ UNCHANGED <<adata, scores, figures>>

\* One iteration of `while len(pos_seen) < n_plot` (lines 158-167).
LoopStep ==
    /\ pc = "loop"
    /\ Cardinality(pos_seen) < call.n_plot
    /\ LET min_idx == unravel_index(argmin(scores))
       IN  /\ scores' = Overwrite(scores, min_idx)
           /\ pos_seen' = pos_seen \cup {min_idx[1]}
    /\ iters' = Bump(iters)
    /\ UNCHANGED <<adata, call, pc, ret, figures, draws>>

\* The loop condition fails: positions = sorted(pos_seen) (line 168).
LoopExit ==
    /\ pc = "loop"
    /\ ~(Cardinality(pos_seen) < call.n_plot)
    /\ ret' = [ret EXCEPT !.positions = SortedSeq(pos_seen)]
    /\ pc' = "render"
    /\ UNCHANGED <<adata, call, figures, draws, scores, pos_seen, iters>>

\* The loop over positions (lines 170-176).
RenderPositions ==
    /\ pc = "render"
    /\ LET r == RenderFrom(adata, call.has_reference, ret.pos2msa, ret.positions, 1)
       IN  /\ draws' = r.plots
           /\ ret' = [ret EXCEPT !.err = r.err,
                                 !.failed_at = IF r.err # NoErr THEN "render" ELSE ""]
    /\ pc' = "done"
    /\ UNCHANGED <<adata, call, figures, scores, pos_seen, iters>>

Symbols == Range1(Vocabulary)

\* An aligned sequence as wide as the score matrix has rows, and its
\* ungapped form.
SampleMsa == [k \in 1 .. NumPositions |-> IF k = 2 THEN "-" ELSE Vocabulary[1 + (k % NumCats)]]
SampleSeq == SelectSeq(SampleMsa, LAMBDA ch : ch # "-")

NoCall ==
    [fn |-> "residue_categories", has_positions |-> FALSE, positions |-> <<>>,
     n_plot |-> 0, has_reference |-> FALSE, entry |-> <<>>]

\* Overlay runs: any score matrix of at most MaxNonzero cells that are -1
\* or +1 with one aligned dataset and no reference, and one score matrix with any pair of a non-empty raw and a
\* non-empty aligned reference sequence.
InitOverlay ==
    /\ pc = "idle"
    /\ call = NoCall
    /\ ret = [err |-> NoErr, positions |-> <<>>, pos2msa |-> <<>>, failed_at |-> ""]
    /\ figures = 0
    /\ draws = <<>>
    /\ pos_seen = {}
    /\ iters = 0
    /\ \/ /\ \E S \in CellSets : \E val \in [S -> {-1, 1}] : scores = ScoreMatrix(S, val)
          /\ adata = [seq |-> SampleSeq, seqs_msa |-> SampleMsa,
                      reference_modes |-> {FALSE}]
       \/ /\ scores = ScoreMatrix({}, <<>>)
          /\ \E raw \in SeqsUpTo(Symbols, MaxSeqLen) \ {<<>>},
               msa \in SeqsUpTo(Symbols \cup {"-"}, MaxSeqLen + 1) \ {<<>>} :
                adata = [seq |-> raw, seqs_msa |-> msa, reference_modes |-> {TRUE}]

NextOverlay == Call \/ LoopStep \/ LoopExit \/ RenderPositions

SpecOverlay == InitOverlay /\ [][NextOverlay]_vars

\* The interpreter keeps running the loop and the statements after it.
SpecOverlayFair ==
    SpecOverlay /\ WF_vars(LoopStep) /\ WF_vars(LoopExit) /\ WF_vars(RenderPositions)

----------------------------------------------------------------------------
(* Properties of shortest_path.                                            *)

\* Directed reachability in T: an edge u -> v is a nonzero entry T[u][v].
RECURSIVE DirWithin(_, _, _)
DirWithin(T, s, k) ==
    IF k = 0 THEN {s}
    ELSE LET prev == DirWithin(T, s, k - 1)
         IN  prev \cup {v \in Nodes : \E u \in prev : T[u][v] # 0}

DirReachable(T, s, t) == t \in DirWithin(T, s, NumNodes)

DirHops(T, s, t) ==
    CHOOSE k \in 0 .. NumNodes :
        /\ t \in DirWithin(T, s, k)
        /\ \A j \in 0 .. (k - 1) : t \notin DirWithin(T, s, j)

ResolverDone == pc = "done" /\ call.fn = "shortest_path"

Validated == ~NeighborsCorrupted(adata) /\ AllKeys \subseteq adata.uns

HasZeroRow == \E u \in Nodes : \A v \in Nodes : adata.distances[u][v] = 0

BeforeGraphWork ==
    \A i \in 1 .. Len(ret.steps) : ret.steps[i] \notin {"difference", "build_graph", "search"}

\* C1: whenever a directed path from source to target exists in
\* T = graph - graph_neg, shortest_path returns a node sequence from source
\* to target whose consecutive pairs are directed edges of T and whose hop
\* count is the minimum over all directed source-to-target paths.
C1_DirectedShortestPath ==
    LET T == Difference(adata)
        s == call.source_idx
        t == call.target_idx
        p == ret.path
    IN  (ResolverDone /\ Validated /\ DirReachable(T, s, t)) =>
            /\ ret.err = NoErr
            /\ Len(p) >= 1
            /\ p[1] = s
            /\ p[Len(p)] = t
            /\ \A i \in 1 .. (Len(p) - 1) : T[p[i]][p[i + 1]] # 0
            /\ Len(p) - 1 = DirHops(T, s, t)

\* C2: shortest_path raises the corrupted-neighbor-graph error whenever some
\* row of the distance matrix has no nonzero entry, otherwise the
\* missing-prerequisite error when 'velocity_graph' is absent; either error
\* comes before the difference matrix, the graph or the search, and the
\* corrupted-neighbor-graph error wins when both conditions hold.
C2_ErrorPrecedence ==
    ResolverDone =>
        /\ HasZeroRow => (ret.err = ErrCorrupted /\ BeforeGraphWork)
        /\ (~HasZeroRow /\ "velocity_graph" \notin adata.uns) =>
                (ret.err = ErrNoGraph /\ BeforeGraphWork)

\* Both conditions at once, in a matrix that is not all-zero.
C2_Witness ==
    /\ ResolverDone
    /\ HasZeroRow
    /\ \E u \in Nodes, v \in Nodes : adata.distances[u][v] # 0
    /\ "velocity_graph" \notin adata.uns
    /\ ret.err = ErrCorrupted

----------------------------------------------------------------------------
(* Properties of draw_path.                                                *)

RendererDone == pc = "done" /\ call.fn = "draw_path"

\* C3: a draw_path call that fails has created no figure and drawn nothing.
C3_FailedCallNoPlot ==
    (RendererDone /\ ret.err # NoErr) => (figures = 0 /\ draws = <<>>)

\* C4: for a path of n >= 1 nodes with the embedding present, draw_path
\* issues n-1 arrows, the i-th from the point of path[i] to the point of
\* path[i+1], then one scatter of all n points above the arrows, and
\* returns the surface it drew on.
C4_ArrowsThenScatter ==
    LET p == ret.path
        n == Len(p)
        X == adata.X
    IN  (RendererDone /\ ret.err = NoErr /\ n >= 1) =>
            /\ Len(draws) = n
            /\ \A i \in 1 .. (n - 1) :
                    /\ draws[i].op = "arrow"
                    /\ <<draws[i].x, draws[i].y>> = X[p[i]]
                    /\ <<draws[i].x + draws[i].dx, draws[i].y + draws[i].dy>> = X[p[i + 1]]
                    /\ draws[i].zorder < draws[n].zorder
                    /\ draws[i].ax = ret.ax
            /\ draws[n].op = "scatter"
            /\ draws[n].ax = ret.ax
            /\ draws[n].xs = [i \in 1 .. n |-> X[p[i]][1]]
            /\ draws[n].ys = [i \in 1 .. n |-> X[p[i]][2]]
            /\ ret.ax = (IF call.has_ax THEN AxUser ELSE AxNew)
            /\ figures = (IF call.has_ax THEN 0 ELSE 1)

\* A resolved three-node path drawn on a supplied surface.
C4_Witness ==
    /\ RendererDone
    /\ ret.err = NoErr
    /\ ~call.has_path
    /\ call.has_ax
    /\ Len(ret.path) = 3
    /\ Len(draws) = 3
    /\ draws[1].op = "arrow"
    /\ draws[3].op = "scatter"

----------------------------------------------------------------------------
(* Properties of residue_scores.                                           *)

HeatmapDone == pc = "done" /\ call.fn = "residue_scores"

\* The rows shown, as original row indices, read back from the labels.
ShownRows == [k \in 1 .. Len(draws[1].yticklabels) |->
                CHOOSE i \in 0 .. 9 : str(i) = draws[1].yticklabels[k]]

\* A displayed quotient compared with an integer c: num/den = c, num/den <= c.
QuotEq(q, c) == q.den # 0 /\ q.num = c * q.den
QuotInUnit(q) == q.den > 0 /\ -q.den <= q.num /\ q.num <= q.den

\* C5 as stated: every displayed value lies in [-1, 1]; the cells of the
\* original minimum display exactly -1 and the cells of the original
\* maximum display exactly +1.
C5_BothExtremesUnit ==
    HeatmapDone =>
        LET X == draws[1].X
            rows == ShownRows
            lo == MinOf(scores, Range1(rows))
            hi == MaxOf(scores, Range1(rows))
        IN  \A k \in 1 .. Len(rows), j \in Cats :
                /\ QuotInUnit(X[k][j])
                /\ scores[rows[k]][j] = lo => QuotEq(X[k][j], -1)
                /\ scores[rows[k]][j] = hi => QuotEq(X[k][j], 1)

\* C5 amended: when the shown matrix has a nonzero entry, every displayed
\* value lies in [-1, 1] and the cells of largest absolute value display
\* exactly -1 or +1 according to their sign; the minimum displays -1 only
\* if |min| >= max and the maximum +1 only if max >= |min|.
C5_LargestMagnitudeUnit ==
    HeatmapDone =>
        LET X == draws[1].X
            rows == ShownRows
            lo == MinOf(scores, Range1(rows))
            hi == MaxOf(scores, Range1(rows))
            big == IF Abs(lo) >= Abs(hi) THEN Abs(lo) ELSE Abs(hi)
        IN  big > 0 =>
                \A k \in 1 .. Len(rows), j \in Cats :
                    LET v == scores[rows[k]][j]
                    IN  /\ QuotInUnit(X[k][j])
                        /\ v = big => QuotEq(X[k][j], 1)
                        /\ v = -big => QuotEq(X[k][j], -1)
                        /\ QuotEq(X[k][j], 1) => v = big
                        /\ QuotEq(X[k][j], -1) => v = -big

\* A matrix whose minimum is larger in magnitude than its maximum: the
\* minimum displays -1 and the maximum displays less than +1.
C5_Witness ==
    /\ HeatmapDone
    /\ MinOf(scores, Positions) = -2
    /\ MaxOf(scores, Positions) = 1
    /\ call.percentile_keep = 0
    /\ \E k \in 1 .. Len(draws[1].X), j \in Cats :
            draws[1].X[k][j] = [num |-> 1, den |-> 2]

\* The median of the row sums, doubled: the middle sum twice for an odd
\* number of rows, the two middle sums added for an even number.
Median2(sums) ==
    IF NumPositions % 2 = 1
    THEN 2 * Kth(sums, NumPositions \div 2)
    ELSE Kth(sums, NumPositions \div 2 - 1) + Kth(sums, NumPositions \div 2)

\* C6: with percentile_keep > 0 the rows shown are exactly the rows whose
\* absolute row sum is at or above that percentile of all row sums (the
\* median for 50), in original order, each labelled with its original
\* zero-based index; with percentile_keep <= 0 every row is shown.
C6_PercentileKeep ==
    HeatmapDone =>
        LET p == call.percentile_keep
            sums == [i \in Positions |-> AbsSumUpTo(scores, i, NumCats - 1)]
            rows == ShownRows
            expected ==
                IF p <= 0 THEN Positions
                ELSE IF p = 50 THEN {i \in Positions : 2 * sums[i] >= Median2(sums)}
                ELSE {i \in Positions : 100 * sums[i] >= Percentile100(sums, p)}
        IN  /\ Range1(rows) = expected
            /\ Len(rows) = Cardinality(expected)
            /\ \A k \in 1 .. (Len(rows) - 1) : rows[k] < rows[k + 1]
            /\ Len(draws[1].X) = Len(rows)
            /\ \A k \in 1 .. Len(rows), j \in Cats :
                    draws[1].X[k][j].num = scores[rows[k]][j]

\* The median cut drops the first row and keeps later ones under their
\* original labels.
C6_Witness ==
    /\ HeatmapDone
    /\ call.percentile_keep = 50
    /\ Len(draws[1].yticklabels) < NumPositions
    /\ draws[1].yticklabels[1] # "0"

----------------------------------------------------------------------------
(* Properties of residue_categories.                                       *)

CategoriesEntered == call.fn = "residue_categories" /\ pc # "idle"

FiniteEntry == \A c \in Cells : call.entry[c[1]][c[2]] < Inf

\* An auto-selection call that got past the reference mapping.
AutoRun ==
    /\ CategoriesEntered
    /\ ~call.has_positions
    /\ ret.failed_at # "mapping"

\* C7: on a finite matrix with at least n_plot rows, auto-selection yields
\* n_plot distinct rows in ascending order, every selected row's original
\* minimum is at or below every unselected row's, and the cell that held a
\* selected row's original minimum is positive infinity afterward.
C7_AutoSelection ==
    (AutoRun /\ pc \in {"render", "done"} /\ FiniteEntry
            /\ call.n_plot <= NumPositions) =>
        LET E == call.entry
            sel == ret.positions
            RowMin(i) == CHOOSE v \in {E[i][j] : j \in Cats} : \A j \in Cats : v <= E[i][j]
            FirstMinCol(i) ==
                CHOOSE j \in Cats :
                    /\ E[i][j] = RowMin(i)
                    /\ \A l \in 0 .. (j - 1) : E[i][l] # RowMin(i)
        IN  /\ Len(sel) = call.n_plot
            /\ Range1(sel) \subseteq Positions
            /\ \A k \in 1 .. (Len(sel) - 1) : sel[k] < sel[k + 1]
            /\ \A i \in Range1(sel), u \in Positions \ Range1(sel) : RowMin(i) <= RowMin(u)
            /\ \A i \in Range1(sel) : scores[i][FirstMinCol(i)] = Inf

\* Two rows picked out of a matrix whose lowest two cells share a row.
C7_Witness ==
    /\ AutoRun
    /\ pc = "done"
    /\ FiniteEntry
    /\ call.n_plot = 2
    /\ Len(ret.positions) = 2
    /\ iters = 3

Ungapped(msa) == SelectSeq(msa, LAMBDA ch : ch # "-")

RECURSIVE NonGapColumns(_, _)
\* The zero-based columns of the non-gap characters from column idx on.
NonGapColumns(msa, idx) ==
    IF idx > Len(msa) THEN <<>>
    ELSE (IF msa[idx] = "-" THEN <<>> ELSE <<idx - 1>>) \o NonGapColumns(msa, idx + 1)

\* C8: with a reference, an aligned sequence whose ungapped form is not the
\* raw sequence makes the call fail with the assertion error before the
\* score matrix is touched or anything is rendered; otherwise ungapped
\* position k maps to the column of the k-th non-gap character.
C8_ReferenceMapping ==
    (CategoriesEntered /\ call.has_reference) =>
        IF Ungapped(adata.seqs_msa) # adata.seq
        THEN /\ ret.err = ErrAssert
             /\ pc = "done"
             /\ scores = call.entry
             /\ draws = <<>>
        ELSE /\ ret.failed_at # "mapping"
             /\ ret.pos2msa = NonGapColumns(adata.seqs_msa, 1)

\* The first cell, in row-major order, that holds the least value.
IsFirstMin(S, c) ==
    /\ \A d \in Cells : S[c[1]][c[2]] <= S[d[1]][d[2]]
    /\ \A d \in Cells :
            (d[1] < c[1] \/ (d[1] = c[1] /\ d[2] < c[2])) => S[d[1]][d[2]] # S[c[1]][c[2]]

\* C9: the score matrix changes only in auto-selection mode and only by
\* the current global minimum cell being overwritten with positive
\* infinity, one cell per loop iteration; no cell that is positive
\* infinity becomes finite again and every other cell keeps its value.
C9_OnlyMinOverwritten ==
    [][ /\ \A c \in Cells :
            /\ scores'[c[1]][c[2]] # scores[c[1]][c[2]] =>
                    /\ scores'[c[1]][c[2]] = Inf
                    /\ IsFirstMin(scores, c)
                    /\ pc = "loop"
                    /\ ~call.has_positions
            /\ scores[c[1]][c[2]] = Inf => scores'[c[1]][c[2]] = Inf
        /\ (pc = "loop" /\ pc' = "loop") =>
                \E c \in Cells :
                    /\ IsFirstMin(scores, c)
                    /\ scores' = [scores EXCEPT ![c[1]][c[2]] = Inf]
        /\ (pc' # "idle" /\ call'.has_positions) => scores' = scores
      ]_vars

\* A later auto-selection call scanning a matrix that an earlier call left
\* partly overwritten.
C9_Witness ==
    /\ AutoRun
    /\ pc = "loop"
    /\ iters >= 1
    /\ \E c \in Cells : call.entry[c[1]][c[2]] = Inf
    /\ \E c \in Cells : call.entry[c[1]][c[2]] < Inf /\ scores[c[1]][c[2]] = Inf
    /\ \E c \in Cells : scores[c[1]][c[2]] < Inf

\* C10: on a finite matrix the selection loop terminates iff
\* n_plot <= R, within R*C iterations; with n_plot > R the loop condition
\* never fails, and once every cell is positive infinity the scan returns
\* the first cell, whose row is already recorded.
C10_Termination ==
    /\ []((AutoRun /\ FiniteEntry /\ call.n_plot > NumPositions) =>
            /\ pc = "loop"
            /\ Cardinality(pos_seen) < call.n_plot
            /\ (\A c \in Cells : scores[c[1]][c[2]] = Inf) =>
                    (unravel_index(argmin(scores)) = <<0, 0>> /\ 0 \in pos_seen))
    /\ []((AutoRun /\ FiniteEntry /\ call.n_plot <= NumPositions) =>
            iters <= NumPositions * NumCats)
    /\ []((AutoRun /\ FiniteEntry /\ call.n_plot <= NumPositions) => <>(pc # "loop"))

\* A run with n_plot > R that has consumed every cell and is still looping.
C10_Witness ==
    /\ AutoRun
    /\ FiniteEntry
    /\ call.n_plot > NumPositions
    /\ pc = "loop"
    /\ iters = IterCap
    /\ \A c \in Cells : scores[c[1]][c[2]] = Inf

====
